---- MODULE Spec2Model ----
(***************************************************************************)
(* A model of rhg_compute_tools/gcs.py: the path translation helpers       *)
(* (_remove_prefix, _get_path_types), the delete operation (rm) and the    *)
(* copy / sync operations (cp_gcs, sync_gcs).                              *)
(*                                                                         *)
(* Python strings are TLA+ strings; TLC evaluates Len, \o and SubSeq on    *)
(* them character by character, so every string function below is         *)
(* computed on the characters, as the Python code computes it.             *)
(*                                                                         *)
(* Three specifications share the variables:                               *)
(*   SpecPaths  the two pure path helpers, applied to bounded inputs;      *)
(*   SpecRm     one call of rm against a bucket;                           *)
(*   SpecCp     one call of cp_gcs or sync_gcs against a filesystem.       *)
(***************************************************************************)
EXTENDS Integers, Sequences, FiniteSets, TLC

VARIABLES
    op,             \* the function that was called ("none" before the call)
    pc,             \* position of the call in the function's code
    args,           \* the arguments of the call, as passed
    ret,            \* the value returned (None until the call returns)
    err,            \* the exception the call ended in ("none" otherwise)
    \* ---- rm
    path,           \* rm's local `path` after line 112
    cred_path,      \* rm's local `cred_path` after lines 114-119
    client,         \* the credential get_bucket authenticated with (None before)
    blobs,          \* the objects client.list_blobs returned, in listing order
    i,              \* how many of `blobs` the for loop has taken
    sdk_calls,      \* the storage API calls made so far, in order
    bucket,         \* names of the objects in the bucket
    bucket0,        \* the bucket's content when the call started
    environ,        \* os.environ['GCLOUD_DEFAULT_TOKEN_FILE'] (None when unset)
    env_read,       \* whether the call has read os.environ
    \* ---- cp_gcs / sync_gcs
    src,            \* the local `src` (sync_gcs reassigns it at line 241)
    dest,           \* the local `dest` (sync_gcs reassigns it at line 242)
    src_gs,
    dest_gs,
    dest_gcs,
    dest_base,      \* cp_gcs only
    cmd,            \* the argument vector given to subprocess.Popen
    proc,           \* the external tool's run: [ran, status, stdout, stderr]
    fs,             \* the directories that exist (normalised paths)
    fs0,            \* the directories that existed when the call started
    gsutil_on_path  \* whether the external tool can be found on the PATH

callVars == <<op, pc, args, ret, err>>
rmVars == <<path, cred_path, client, blobs, i, sdk_calls, bucket, bucket0, environ, env_read>>
cpVars == <<src, dest, src_gs, dest_gs, dest_gcs, dest_base, cmd, proc, fs, fs0, gsutil_on_path>>
vars == <<callVars, rmVars, cpVars>>

None == "<None>"

\* the value of `proc` before the external tool has run
NotRun == [ran |-> FALSE, status |-> 0, stdout |-> "", stderr |-> ""]

(***************************************************************************)
(* Python's str methods, on characters.                                    *)
(***************************************************************************)

\* text[n:]
DropFirst(text, n) == SubSeq(text, n + 1, Len(text))

\* text.startswith(prefix)
startswith(text, prefix) ==
    /\ Len(text) >= Len(prefix)
    /\ SubSeq(text, 1, Len(prefix)) = prefix

\* text.endswith(suffix)
endswith(text, suffix) ==
    /\ Len(text) >= Len(suffix)
    /\ SubSeq(text, Len(text) - Len(suffix) + 1, Len(text)) = suffix

\* text.replace(old, new) for a non-empty `old`: every non-overlapping
\* occurrence of `old`, scanning from the left, is replaced.
RECURSIVE replace(_, _, _)
replace(text, old, new) ==
    IF Len(text) < Len(old) THEN text
    ELSE IF startswith(text, old)
         THEN new \o replace(DropFirst(text, Len(old)), old, new)
         ELSE SubSeq(text, 1, 1) \o replace(DropFirst(text, 1), old, new)

\* text.rstrip('/')
RECURSIVE rstrip_slash(_)
rstrip_slash(text) ==
    IF endswith(text, "/") THEN rstrip_slash(SubSeq(text, 1, Len(text) - 1))
    ELSE text

(***************************************************************************)
(* The path translator.                                                    *)
(***************************************************************************)

\* the default of _remove_prefix's parameter `prefix`
DefaultPrefix == "/gcs/rhg-data/"

\* A slip of _remove_prefix: the slice start is len(prefix) whether or not
\* the text starts with the prefix.
remove_prefix_unguarded(text) == DropFirst(text, Len(DefaultPrefix))

\* _remove_prefix(text): text[text.startswith(prefix) and len(prefix):]
\* The slice start is len(prefix) when the test holds and False (0) otherwise.
_remove_prefix(text) ==
    LET start == IF startswith(text, DefaultPrefix) THEN Len(DefaultPrefix) ELSE 0
    IN  DropFirst(text, start)

\* _get_path_types(src, dest): <<src_gs, dest_gs, dest_gcs>>
_get_path_types(s, d) ==
    LET sgs  == IF startswith(s, "/gcs/") THEN replace(s, "/gcs/", "gs://") ELSE s
        dgs  == IF startswith(d, "/gcs/") THEN replace(d, "/gcs/", "gs://") ELSE d
        dgcs == IF startswith(d, "gs://") THEN replace(d, "gs://", "/gcs/") ELSE d
    IN  <<sgs, dgs, dgcs>>

(***************************************************************************)
(* SpecPaths: the path helpers applied to every string built from at most  *)
(* MaxPieces pieces.                                                       *)
(***************************************************************************)

MaxPieces == 2

Pieces == {"/gcs/", "gs://", DefaultPrefix, "a"}

RECURSIVE Concats(_)
Concats(n) ==
    IF n = 0 THEN {""}
    ELSE LET shorter == Concats(n - 1)
         IN  shorter \cup {p \o s : p \in Pieces, s \in shorter}

PathInputs == Concats(MaxPieces)

Idle ==
    /\ op = "none" /\ pc = "idle" /\ args = <<>> /\ ret = None /\ err = "none"

RmIdle ==
    /\ path = None /\ cred_path = None /\ client = None
    /\ blobs = <<>> /\ i = 0 /\ sdk_calls = <<>> /\ env_read = FALSE

CpIdle ==
    /\ src = None /\ dest = None
    /\ src_gs = None /\ dest_gs = None /\ dest_gcs = None /\ dest_base = None
    /\ cmd = None /\ proc = NotRun

InitPaths ==
    /\ Idle /\ RmIdle /\ CpIdle
    /\ bucket = {} /\ bucket0 = {} /\ environ = None
    /\ fs = {} /\ fs0 = {} /\ gsutil_on_path = TRUE

RemovePrefixCall ==
    \E text \in PathInputs :
        /\ pc = "idle"
        /\ op' = "_remove_prefix"
        /\ args' = <<text>>
        /\ ret' = _remove_prefix(text)
        /\ pc' = "returned"
        /\ UNCHANGED <<err, rmVars, cpVars>>

GetPathTypesCall ==
    \E s \in PathInputs, d \in PathInputs :
        /\ pc = "idle"
        /\ op' = "_get_path_types"
        /\ args' = <<s, d>>
        /\ ret' = _get_path_types(s, d)
        /\ pc' = "returned"
        /\ UNCHANGED <<err, rmVars, cpVars>>

NextPaths == RemovePrefixCall \/ GetPathTypesCall

SpecPaths == InitPaths /\ [][NextPaths]_vars

(***************************************************************************)
(* The delete operation.                                                   *)
(***************************************************************************)

MaxObjects == 3

\* object names the bucket may hold
Keys == {"ab", "a/", "a/x", "a/b/", "a/b/y", "c/z"}

Buckets == {B \in SUBSET Keys : Cardinality(B) <= MaxObjects}

\* values of rm's argument `path`
RmPaths == {"a", "a/", "a/b/", "/gcs/rhg-data/a", "/gcs/rhg-data/a/", "c"}

\* the value rm returns: dt.now() - start_time
Elapsed == "<timedelta>"

\* `sub in text` for a one-character `sub`
Contains(text, sub) == \E k \in 1..Len(text) : SubSeq(text, k, k) = sub

\* A slip of lines 123-126: the branches exchanged.
delimiter_swapped(recursive) == IF recursive THEN "/" ELSE None

\* lines 123-126: the delimiter rm lists with
delimiter(recursive) == IF recursive THEN None ELSE "/"

\* client.list_blobs(bucket, prefix=..., delimiter=...), iterated: the objects
\* whose name starts with the prefix; with a delimiter, those among them whose
\* name has no delimiter after the prefix (the others are rolled up into
\* blobs.prefixes, which the loop does not visit).
list_blobs(B, prefix, delim) ==
    {k \in B : /\ startswith(k, prefix)
               /\ delim # None => ~Contains(DropFirst(k, Len(prefix)), delim)}

\* the orders in which a listing may come back
Orders(S) ==
    {f \in [1..Cardinality(S) -> S] : \A m, n \in 1..Cardinality(S) : f[m] = f[n] => m = n}

\* A slip of lines 114-119: the environment variable is preferred to the
\* argument.
resolve_cred_env_first(c, env) ==
    [read |-> TRUE,
     raised |-> c = None /\ env = None,
     value |-> IF env # None THEN env ELSE c]

\* lines 114-119: the credential path rm goes on with, whether os.environ
\* was read for it, and whether the KeyError is raised
resolve_cred(c, env) ==
    [read |-> c = None,
     raised |-> c = None /\ env = None,
     value |-> IF c = None THEN env ELSE c]

InitRm ==
    /\ Idle /\ RmIdle /\ CpIdle
    /\ bucket \in Buckets /\ bucket0 = bucket
    /\ environ \in {None, "env.json"}
    /\ fs = {} /\ fs0 = {} /\ gsutil_on_path = TRUE

\* rm(path, cred_path, recursive) is called
RmCall ==
    \E p \in RmPaths, c \in {None, "arg.json"}, r \in BOOLEAN :
        /\ pc = "idle"
        /\ op' = "rm"
        /\ args' = [path |-> p, cred_path |-> c, recursive |-> r]
        /\ pc' = "rm_112"
        /\ UNCHANGED <<ret, err, rmVars, cpVars>>

\* lines 111-119
RmResolve ==
    /\ op = "rm" /\ pc = "rm_112"
    /\ path' = _remove_prefix(args.path)
    /\ LET c == resolve_cred(args.cred_path, environ)
       IN  /\ env_read' = c.read
           /\ IF c.raised
              THEN /\ err' = "KeyError" /\ pc' = "raised"
                   /\ UNCHANGED cred_path
              ELSE /\ cred_path' = c.value /\ pc' = "rm_121"
                   /\ UNCHANGED err
    /\ UNCHANGED <<op, args, ret, client, blobs, i, sdk_calls, bucket, bucket0, environ, cpVars>>

\* line 121, the SDK accepts the credentials and finds the bucket
RmGetBucket ==
    /\ op = "rm" /\ pc = "rm_121"
    /\ sdk_calls' = Append(sdk_calls, <<"get_bucket", cred_path>>)
    /\ client' = cred_path
    /\ pc' = "rm_123"
    /\ UNCHANGED <<op, args, ret, err, path, cred_path, blobs, i, bucket, bucket0, environ, env_read, cpVars>>

\* line 121, the SDK raises (bad credentials, no such bucket)
RmGetBucketFail ==
    /\ op = "rm" /\ pc = "rm_121"
    /\ sdk_calls' = Append(sdk_calls, <<"get_bucket", cred_path>>)
    /\ err' = "SdkError" /\ pc' = "raised"
    /\ UNCHANGED <<op, args, ret, path, cred_path, client, blobs, i, bucket, bucket0, environ, env_read, cpVars>>

\* lines 123-129
RmListBlobs ==
    /\ op = "rm" /\ pc = "rm_123"
    /\ LET delim == delimiter(args.recursive)
       IN  /\ sdk_calls' = Append(sdk_calls, <<"list_blobs", path, delim>>)
           /\ blobs' \in Orders(list_blobs(bucket, path, delim))
    /\ pc' = "rm_130"
    /\ UNCHANGED <<op, args, ret, err, path, cred_path, client, i, bucket, bucket0, environ, env_read, cpVars>>

\* lines 128-130, the listing request raises when the loop first asks for it
RmListBlobsFail ==
    /\ op = "rm" /\ pc = "rm_123"
    /\ sdk_calls' = Append(sdk_calls, <<"list_blobs", path, delimiter(args.recursive)>>)
    /\ err' = "SdkError" /\ pc' = "raised"
    /\ UNCHANGED <<op, args, ret, path, cred_path, client, blobs, i, bucket, bucket0, environ, env_read, cpVars>>

\* lines 130-131, b.delete() succeeds
RmDelete ==
    /\ op = "rm" /\ pc = "rm_130" /\ i < Len(blobs)
    /\ LET b == blobs[i + 1]
       IN  /\ sdk_calls' = Append(sdk_calls, <<"delete", b>>)
           /\ bucket' = bucket \ {b}
    /\ i' = i + 1
    /\ UNCHANGED <<op, pc, args, ret, err, path, cred_path, client, blobs, bucket0, environ, env_read, cpVars>>

\* A slip of the loop: a failed deletion puts the deleted objects back.
RmDeleteFail_Rollback ==
    /\ op = "rm" /\ pc = "rm_130" /\ i < Len(blobs)
    /\ sdk_calls' = Append(sdk_calls, <<"delete", blobs[i + 1]>>)
    /\ i' = i + 1
    /\ bucket' = bucket0
    /\ err' = "DeleteError" /\ pc' = "raised"
    /\ UNCHANGED <<op, args, ret, path, cred_path, client, blobs, bucket0, environ, env_read, cpVars>>

\* lines 130-131, b.delete() raises: nothing catches it
RmDeleteFail ==
    /\ op = "rm" /\ pc = "rm_130" /\ i < Len(blobs)
    /\ sdk_calls' = Append(sdk_calls, <<"delete", blobs[i + 1]>>)
    /\ i' = i + 1
    /\ err' = "DeleteError" /\ pc' = "raised"
    /\ UNCHANGED <<op, args, ret, path, cred_path, client, blobs, bucket, bucket0, environ, env_read, cpVars>>

\* line 133
RmReturn ==
    /\ op = "rm" /\ pc = "rm_130" /\ i = Len(blobs)
    /\ ret' = Elapsed
    /\ pc' = "returned"
    /\ UNCHANGED <<op, args, err, rmVars, cpVars>>

NextRm ==
    \/ RmCall
    \/ RmResolve
    \/ RmGetBucket
    \/ RmGetBucketFail
    \/ RmListBlobs
    \/ RmListBlobsFail
    \/ RmDelete
    \/ RmDeleteFail
    \/ RmReturn

SpecRm == InitRm /\ [][NextRm]_vars

(***************************************************************************)
(* The filesystem, as cp_gcs and sync_gcs use it.  Only directories are    *)
(* modelled: `fs` is the set of directories that exist, each named by its  *)
(* resolved path.                                                          *)
(***************************************************************************)

\* runs of '/' count as one '/'
RECURSIVE Squeeze(_)
Squeeze(p) ==
    IF Len(p) < 2 THEN p
    ELSE IF SubSeq(p, 1, 2) = "//" THEN Squeeze(DropFirst(p, 1))
         ELSE SubSeq(p, 1, 1) \o Squeeze(DropFirst(p, 1))

\* the directory a path string names: repeated and trailing separators do
\* not matter to the filesystem
Resolve(p) ==
    LET q == Squeeze(p)
    IN  IF Len(q) > 1 /\ endswith(q, "/") THEN SubSeq(q, 1, Len(q) - 1) ELSE q

\* os.path.exists(p), in the set of directories F
exists(F, p) == Resolve(p) \in F

\* os.path.isdir(p), in the set of directories F
isdir(F, p) == Resolve(p) \in F

\* os.path.basename(p): what follows the last '/'
basename(p) ==
    LET slashes == {k \in 1..Len(p) : SubSeq(p, k, k) = "/"}
        last == IF slashes = {} THEN 0
                ELSE CHOOSE k \in slashes : \A m \in slashes : m <= k
    IN  DropFirst(p, last)

\* os.path.join(a, b)
join(a, b) ==
    IF startswith(b, "/") THEN b
    ELSE IF a = "" \/ endswith(a, "/") THEN a \o b
    ELSE a \o "/" \o b

\* the names of the directories directly in directory D
listdir(F, D) ==
    LET pre == IF D = "/" THEN "/" ELSE D \o "/"
    IN  {DropFirst(q, Len(pre)) :
            q \in {x \in F : /\ startswith(x, pre) /\ Len(x) > Len(pre)
                             /\ ~Contains(DropFirst(x, Len(pre)), "/")}}

\* [x[0] for x in os.walk(top)]: top as it was written, then every directory
\* below it as join(parent, name); nothing when top is no directory
RECURSIVE walk(_, _)
walk(F, top) ==
    IF ~isdir(F, top) THEN {}
    ELSE {top} \cup UNION {walk(F, join(top, n)) : n \in listdir(F, Resolve(top))}

\* os.makedirs(d, exist_ok=True): d and every directory above it exist
makedirs(F, d) ==
    LET q == Resolve(d)
    IN  F \cup {q}
          \cup {SubSeq(q, 1, k - 1) : k \in {n \in 2..Len(q) : SubSeq(q, n, n) = "/"}}
          \cup (IF startswith(q, "/") THEN {"/"} ELSE {})

(***************************************************************************)
(* The command line.                                                       *)
(***************************************************************************)

\* ' '.join(['-' + f for f in flags])
RECURSIVE join_flags(_)
join_flags(flags) ==
    IF flags = <<>> THEN ""
    ELSE IF Len(flags) = 1 THEN "-" \o flags[1]
    ELSE "-" \o flags[1] \o " " \o join_flags(Tail(flags))

\* the string of line 186 / line 249
command_line(verb, flags, s, d) ==
    "gsutil -m " \o verb \o " " \o join_flags(flags) \o " " \o s \o " " \o d

ShlexError == "<ValueError: No closing quotation>"

\* shlex.split(s) on strings of ordinary characters, blanks and the two
\* quote characters (no backslash): blanks separate the words, a quoted
\* stretch belongs to the word it is in, and an open quote at the end is a
\* ValueError.  k is the position read, cur the word so far, inword whether
\* a word has started, quote the open quote character ("" for none).
RECURSIVE shlex_scan(_, _, _, _, _, _)
shlex_scan(s, k, cur, inword, quote, out) ==
    IF k > Len(s)
    THEN IF quote # "" THEN ShlexError
         ELSE IF inword THEN Append(out, cur) ELSE out
    ELSE LET c == SubSeq(s, k, k)
         IN  IF quote # ""
             THEN IF c = quote
                  THEN shlex_scan(s, k + 1, cur, TRUE, "", out)
                  ELSE shlex_scan(s, k + 1, cur \o c, TRUE, quote, out)
             ELSE IF c = " "
                  THEN IF inword
                       THEN shlex_scan(s, k + 1, "", FALSE, "", Append(out, cur))
                       ELSE shlex_scan(s, k + 1, "", FALSE, "", out)
             ELSE IF c = "'" \/ c = "\""
                  THEN shlex_scan(s, k + 1, cur, TRUE, c, out)
             ELSE shlex_scan(s, k + 1, cur \o c, TRUE, "", out)

shlex_split(s) == shlex_scan(s, 1, "", FALSE, "", <<>>)

(***************************************************************************)
(* The copy and sync operations.                                           *)
(***************************************************************************)

MaxDirs == 3
MaxFlags == 2

\* directories a source tree may hold
TreeDirs == {"a", "a/a", "a/x", "s", "s/x", "s/x/y"}

\* os.path.dirname of a resolved relative path ("" for a single name)
Parent(q) ==
    LET slashes == {k \in 1..Len(q) : SubSeq(q, k, k) = "/"}
    IN  IF slashes = {} THEN ""
        ELSE SubSeq(q, 1, (CHOOSE k \in slashes : \A m \in slashes : m <= k) - 1)

SourceTrees ==
    {T \in SUBSET TreeDirs :
        /\ Cardinality(T) <= MaxDirs
        /\ \A q \in T : Parent(q) = "" \/ Parent(q) \in T}

\* the mount of the bucket, which exists whatever else does
MountDirs == {"/", "/gcs", "/gcs/b"}

CpSrcs == {"a", "a/", "s", "s t", "s'"}
CpDests == {"/gcs/b/d", "/gcs/b/d/", "gs://b/d", "d"}
FlagLetters == {"r", "n"}
FlagLists == UNION {[1..n -> FlagLetters] : n \in 0..MaxFlags}

\* what the external tool may do once it runs
ToolRuns ==
    {[ran |-> TRUE, status |-> 0, stdout |-> "<copied>", stderr |-> ""],
     [ran |-> TRUE, status |-> 1, stdout |-> "", stderr |-> "<CommandException>"]}

InitCp ==
    /\ Idle /\ RmIdle /\ CpIdle
    /\ bucket = {} /\ bucket0 = {} /\ environ = None
    /\ \E T \in SourceTrees, D \in SUBSET {"/gcs/b/d"} : fs = MountDirs \cup T \cup D
    /\ fs0 = fs
    /\ gsutil_on_path \in BOOLEAN

\* cp_gcs(src, dest, cp_flags) is called
CpCall ==
    \E s \in CpSrcs, d \in CpDests, f \in FlagLists :
        /\ pc = "idle"
        /\ op' = "cp_gcs"
        /\ args' = [src |-> s, dest |-> d, flags |-> f]
        /\ src' = s /\ dest' = d
        /\ pc' = "cp_177"
        /\ UNCHANGED <<ret, err, rmVars, src_gs, dest_gs, dest_gcs, dest_base, cmd, proc, fs, fs0, gsutil_on_path>>

\* lines 177-184
CpPaths ==
    /\ op = "cp_gcs" /\ pc = "cp_177"
    /\ LET t == _get_path_types(src, dest)
       IN  /\ src_gs' = t[1] /\ dest_gs' = t[2] /\ dest_gcs' = t[3]
           /\ dest_base' = IF exists(fs, t[3]) THEN join(t[3], basename(src)) ELSE t[3]
    /\ pc' = "cp_186"
    /\ UNCHANGED <<op, args, ret, err, rmVars, src, dest, cmd, proc, fs, fs0, gsutil_on_path>>

\* lines 186-187 (cp_gcs) and 249-250 (sync_gcs): the command line is built
\* and split; shlex.split's ValueError is not caught
BuildCommand(verb, next) ==
    LET words == shlex_split(command_line(verb, args.flags, src_gs, dest_gs))
    IN  IF words = ShlexError
        THEN /\ err' = "ValueError" /\ pc' = "raised" /\ UNCHANGED cmd
        ELSE /\ cmd' = words /\ pc' = next /\ UNCHANGED err

CpCommand ==
    /\ op = "cp_gcs" /\ pc = "cp_186"
    /\ BuildCommand("cp", "cp_188")
    /\ UNCHANGED <<op, args, ret, rmVars, src, dest, src_gs, dest_gs, dest_gcs, dest_base, proc, fs, fs0, gsutil_on_path>>

\* A slip of the subprocess call: a non-zero exit status is turned into an
\* exception, as subprocess.run(check=True) does.
Popen_Checked(next) ==
    /\ cmd # None /\ gsutil_on_path
    /\ \E run \in ToolRuns :
           /\ proc' = run
           /\ IF run.status # 0
              THEN err' = "CalledProcessError" /\ pc' = "raised"
              ELSE pc' = next /\ UNCHANGED err

\* lines 188-190 (cp_gcs) and 251-253 (sync_gcs): the tool is started and
\* runs to its end; its exit status is not looked at.  The tool writes
\* objects, not directory markers, so no directory appears in `fs` by it
\* (the reason lines 192-197 and 255-260 exist).
Popen(next) ==
    /\ cmd # None /\ gsutil_on_path
    /\ proc' \in ToolRuns
    /\ pc' = next
    /\ UNCHANGED err

\* line 188 (cp_gcs) and 251 (sync_gcs): no executable named gsutil on the
\* PATH; subprocess.Popen raises FileNotFoundError, which nothing catches
PopenNotFound ==
    /\ cmd # None /\ ~gsutil_on_path
    /\ err' = "FileNotFoundError" /\ pc' = "raised"
    /\ UNCHANGED proc

CpPopen ==
    /\ op = "cp_gcs" /\ pc = "cp_188"
    /\ Popen("cp_193")
    /\ UNCHANGED <<op, args, ret, rmVars, src, dest, src_gs, dest_gs, dest_gcs, dest_base, cmd, fs, fs0, gsutil_on_path>>

CpPopenNotFound ==
    /\ op = "cp_gcs" /\ pc = "cp_188"
    /\ PopenNotFound
    /\ UNCHANGED <<op, args, ret, rmVars, src, dest, src_gs, dest_gs, dest_gcs, dest_base, cmd, fs, fs0, gsutil_on_path>>

\* os.makedirs(d, exist_ok=True) for every d of dirs
RECURSIVE make_all(_, _)
make_all(F, dirs) ==
    IF dirs = {} THEN F
    ELSE LET d == CHOOSE x \in dirs : TRUE
         IN  make_all(makedirs(F, d), dirs \ {d})

\* lines 192-197
CpMakeDirs ==
    /\ op = "cp_gcs" /\ pc = "cp_193"
    /\ IF isdir(fs, src) /\ startswith(dest_gcs, "/gcs/")
       THEN LET dirs_to_make == {replace(x, src, dest_base) : x \in walk(fs, src)}
            IN  fs' = make_all(fs, dirs_to_make)
       ELSE UNCHANGED fs
    /\ pc' = "cp_199"
    /\ UNCHANGED <<op, args, ret, err, rmVars, src, dest, src_gs, dest_gs, dest_gcs, dest_base, cmd, proc, fs0, gsutil_on_path>>

\* lines 199-201
CpReturn ==
    /\ op = "cp_gcs" /\ pc = "cp_199"
    /\ ret' = <<proc.stdout, proc.stderr, Elapsed>>
    /\ pc' = "returned"
    /\ UNCHANGED <<op, args, err, rmVars, cpVars>>

\* sync_gcs(src, dest, sync_flags) is called
SyncCall ==
    \E s \in CpSrcs, d \in CpDests, f \in FlagLists :
        /\ pc = "idle"
        /\ op' = "sync_gcs"
        /\ args' = [src |-> s, dest |-> d, flags |-> f]
        /\ src' = s /\ dest' = d
        /\ pc' = "sync_241"
        /\ UNCHANGED <<ret, err, rmVars, src_gs, dest_gs, dest_gcs, dest_base, cmd, proc, fs, fs0, gsutil_on_path>>

\* lines 241-247
SyncPaths ==
    /\ op = "sync_gcs" /\ pc = "sync_241"
    /\ src' = rstrip_slash(src)
    /\ dest' = rstrip_slash(dest)
    /\ LET t == _get_path_types(src', dest')
       IN  src_gs' = t[1] /\ dest_gs' = t[2] /\ dest_gcs' = t[3]
    /\ pc' = "sync_249"
    /\ UNCHANGED <<op, args, ret, err, rmVars, dest_base, cmd, proc, fs, fs0, gsutil_on_path>>

SyncCommand ==
    /\ op = "sync_gcs" /\ pc = "sync_249"
    /\ BuildCommand("rsync", "sync_251")
    /\ UNCHANGED <<op, args, ret, rmVars, src, dest, src_gs, dest_gs, dest_gcs, dest_base, proc, fs, fs0, gsutil_on_path>>

SyncPopen ==
    /\ op = "sync_gcs" /\ pc = "sync_251"
    /\ Popen("sync_257")
    /\ UNCHANGED <<op, args, ret, rmVars, src, dest, src_gs, dest_gs, dest_gcs, dest_base, cmd, fs, fs0, gsutil_on_path>>

SyncPopenNotFound ==
    /\ op = "sync_gcs" /\ pc = "sync_251"
    /\ PopenNotFound
    /\ UNCHANGED <<op, args, ret, rmVars, src, dest, src_gs, dest_gs, dest_gcs, dest_base, cmd, fs, fs0, gsutil_on_path>>

\* lines 255-260
SyncMakeDirs ==
    /\ op = "sync_gcs" /\ pc = "sync_257"
    /\ IF startswith(dest_gcs, "/gcs/")
       THEN LET dirs_to_make == {replace(x, src, dest_gcs) : x \in walk(fs, src)}
            IN  fs' = make_all(fs, dirs_to_make)
       ELSE UNCHANGED fs
    /\ pc' = "sync_262"
    /\ UNCHANGED <<op, args, ret, err, rmVars, src, dest, src_gs, dest_gs, dest_gcs, dest_base, cmd, proc, fs0, gsutil_on_path>>

\* lines 262-264
SyncReturn ==
    /\ op = "sync_gcs" /\ pc = "sync_262"
    /\ ret' = <<proc.stdout, proc.stderr, Elapsed>>
    /\ pc' = "returned"
    /\ UNCHANGED <<op, args, err, rmVars, cpVars>>

NextCp ==
    \/ CpCall
    \/ CpPaths
    \/ CpCommand
    \/ CpPopen
    \/ CpPopenNotFound
    \/ CpMakeDirs
    \/ CpReturn
    \/ SyncCall
    \/ SyncPaths
    \/ SyncCommand
    \/ SyncPopen
    \/ SyncPopenNotFound
    \/ SyncMakeDirs
    \/ SyncReturn

SpecCp == InitCp /\ [][NextCp]_vars

----------------------------------------------------------------------------
(* C10, as stated: stripPrefix removes one leading occurrence of the prefix
   and is idempotent on the result; strings without the prefix are returned
   unchanged. *)
C10_AsStated ==
    (op = "_remove_prefix" /\ pc = "returned") =>
        LET p == args[1]
        IN  /\ startswith(p, DefaultPrefix) =>
                /\ p = DefaultPrefix \o ret
                /\ _remove_prefix(ret) = ret
            /\ ~startswith(p, DefaultPrefix) => ret = p

(* C10, amended: for p starting with the prefix, stripPrefix(p) is p without
   its first Len(prefix) characters; a second application leaves that result
   unchanged exactly when the result does not itself start with the prefix,
   and otherwise removes one more occurrence; for p not starting with the
   prefix, stripPrefix(p) = p. *)
C10_RemovePrefix ==
    (op = "_remove_prefix" /\ pc = "returned") =>
        LET p == args[1]
        IN  /\ startswith(p, DefaultPrefix) =>
                /\ p = DefaultPrefix \o ret
                /\ ~startswith(ret, DefaultPrefix) => _remove_prefix(ret) = ret
                /\ startswith(ret, DefaultPrefix) =>
                       ret = DefaultPrefix \o _remove_prefix(ret)
            /\ ~startswith(p, DefaultPrefix) => ret = p

C10_Witness ==
    /\ op = "_remove_prefix" /\ pc = "returned"
    /\ startswith(args[1], DefaultPrefix)
    /\ startswith(ret, DefaultPrefix)
    /\ _remove_prefix(ret) # ret

(* C5: _get_path_types rewrites only the leading prefix of each path and
   keeps the rest character for character. *)
C5_PrefixOnly ==
    (op = "_get_path_types" /\ pc = "returned") =>
        LET s == args[1]
            d == args[2]
        IN  /\ ret[1] = IF startswith(s, "/gcs/")
                        THEN "gs://" \o DropFirst(s, 5) ELSE s
            /\ ret[2] = IF startswith(d, "/gcs/")
                        THEN "gs://" \o DropFirst(d, 5) ELSE d
            /\ ret[3] = IF startswith(d, "gs://")
                        THEN "/gcs/" \o DropFirst(d, 5) ELSE d

----------------------------------------------------------------------------
\* the delete calls among the storage API calls, as the sequence of names
RECURSIVE Deleted(_)
Deleted(calls) ==
    IF calls = <<>> THEN <<>>
    ELSE LET rest == Deleted(SubSeq(calls, 1, Len(calls) - 1))
             last == calls[Len(calls)]
         IN  IF last[1] = "delete" THEN Append(rest, last[2]) ELSE rest

\* the stripped path names a directory of the bucket but has no trailing '/'
DirectoryWithoutSlash(p, B) ==
    /\ p # "" /\ ~endswith(p, "/")
    /\ \E k \in B : startswith(k, p \o "/")

(* C1: rm called with a path that names a directory but has no trailing '/'
   deletes nothing, whatever the bucket holds and whatever recursive is: the
   bucket after the call equals the bucket before it. *)
C1_NoSlashDeletesNothing ==
    (op = "rm" /\ pc = "returned" /\ DirectoryWithoutSlash(path, bucket0)) =>
        bucket = bucket0

(* C2: for a prefix P ending in '/', when no deletion fails, rm with
   recursive = false deletes exactly the objects whose name starts with P and
   has no further '/' after P, rm with recursive = true deletes exactly the
   objects whose name starts with P, and every other object stays. *)
C2_DeletesExactly ==
    (op = "rm" /\ pc = "returned" /\ endswith(path, "/")) =>
        LET under == {k \in bucket0 : startswith(k, path)}
            direct == {k \in under : ~Contains(DropFirst(k, Len(path)), "/")}
        IN  /\ bucket \subseteq bucket0
            /\ bucket0 \ bucket = IF args.recursive THEN under ELSE direct

C2_Witness ==
    /\ op = "rm" /\ pc = "returned" /\ path = "a/" /\ ~args.recursive
    /\ args.path = "/gcs/rhg-data/a/"
    /\ bucket0 = {"a/x", "a/b/y", "c/z"}
    /\ bucket = {"a/b/y", "c/z"}

(* C3: rm takes the credential path from the argument when one is passed,
   without reading the environment, and from GCLOUD_DEFAULT_TOKEN_FILE
   otherwise; with neither, the call ends in the KeyError before any
   storage API call, and the bucket is as it was. *)
C3_Credentials ==
    (op = "rm" /\ pc # "rm_112") =>
        /\ env_read = (args.cred_path = None)
        /\ \A n \in 1..Len(sdk_calls) :
               sdk_calls[n][1] = "get_bucket" =>
                   sdk_calls[n][2] = IF args.cred_path # None
                                     THEN args.cred_path ELSE environ
        /\ (args.cred_path = None /\ environ = None) =>
               /\ pc = "raised" /\ err = "KeyError" /\ ret = None
               /\ sdk_calls = <<>> /\ client = None
               /\ bucket = bucket0
        /\ err = "KeyError" => (args.cred_path = None /\ environ = None)

C3_Witness ==
    /\ op = "rm" /\ pc = "raised" /\ err = "KeyError"
    /\ args.cred_path = None /\ environ = None
    /\ bucket # {}

C3_WitnessArgument ==
    /\ op = "rm" /\ pc = "returned"
    /\ args.cred_path = "arg.json" /\ environ = "env.json"
    /\ client = "arg.json"

(* C4: when the deletion of the k-th listed object fails, the call ends in
   that error at once: the objects listed before it are gone, the objects
   listed after it are there, every deletion was attempted once, in listing
   order, and nothing is returned. *)
C4_FirstFailureAborts ==
    (op = "rm" /\ err = "DeleteError") =>
        /\ pc = "raised" /\ ret = None
        /\ i \in 1..Len(blobs)
        /\ Deleted(sdk_calls) = SubSeq(blobs, 1, i)
        /\ sdk_calls[Len(sdk_calls)] = <<"delete", blobs[i]>>
        /\ \A n \in 1..Len(blobs) :
               /\ n < i => blobs[n] \notin bucket
               /\ n > i => blobs[n] \in bucket
        /\ bucket = bucket0 \ {blobs[n] : n \in 1..(i - 1)}

C4_Witness ==
    /\ op = "rm" /\ pc = "raised" /\ err = "DeleteError"
    /\ i = 2 /\ Len(blobs) = 3

----------------------------------------------------------------------------
\* the directories of the source tree, in the set of directories F
SourceDirs(F, s) ==
    {q \in F : q = Resolve(s) \/ startswith(q, Resolve(s) \o "/")}

\* every directory of the source tree, at relative path r below s, exists
\* as root/r
Mirrored(root, s) ==
    \A q \in SourceDirs(fs0, s) :
        Resolve(root \o DropFirst(q, Len(Resolve(s)))) \in fs

(* C6: after copy of a local directory to a local-mount destination, and
   after sync to a local-mount destination, every directory of the source
   tree exists at the same relative path below the destination root
   (dest_base for copy, dest_gcs for sync). *)
C6_DirectoriesMirrored ==
    /\ (op = "cp_gcs" /\ pc = "returned"
          /\ isdir(fs0, src) /\ startswith(dest_gcs, "/gcs/")) =>
            Mirrored(dest_base, src)
    /\ (op = "sync_gcs" /\ pc = "returned" /\ startswith(dest_gcs, "/gcs/")) =>
            Mirrored(dest_gcs, src)

\* the last name component of a path, trailing separators aside
LastComponent(p) == basename(rstrip_slash(p))

(* C7: in copy, the effective destination is dest_gcs/<last name component
   of src> when dest_gcs exists when the call starts, and dest_gcs itself
   otherwise, also for a src written with a trailing '/'. *)
C7_EffectiveDestination ==
    (op = "cp_gcs" /\ pc \notin {"idle", "cp_177"}) =>
        Resolve(dest_base) =
            IF exists(fs0, dest_gcs)
            THEN Resolve(join(dest_gcs, LastComponent(args.src)))
            ELSE Resolve(dest_gcs)

(* C8, as stated: copy and sync never end in an error because of the
   external tool, whether it exits with a non-zero status or cannot be
   found: once the command is built, the call does not raise. *)
C8_AsStated ==
    (op \in {"cp_gcs", "sync_gcs"} /\ cmd # None) => err = "none"

(* C8, amended: a tool that runs, whatever its exit status, does not make
   copy or sync raise, and the call returns (stdout, stderr, elapsed) of that
   run; a tool that cannot be found makes the call end in FileNotFoundError,
   with nothing returned and no directory created. *)
C8_ToolFailures ==
    (op \in {"cp_gcs", "sync_gcs"}) =>
        /\ proc.ran => err = "none"
        /\ pc = "returned" =>
               /\ proc \in ToolRuns
               /\ ret = <<proc.stdout, proc.stderr, Elapsed>>
        /\ err = "FileNotFoundError" =>
               /\ ~gsutil_on_path /\ pc = "raised"
               /\ proc = NotRun /\ ret = None /\ fs = fs0
        /\ (cmd # None /\ ~gsutil_on_path /\ pc \notin {"cp_188", "sync_251"}) =>
               err = "FileNotFoundError"

C8_Witness ==
    /\ op = "sync_gcs" /\ pc = "returned"
    /\ proc.status = 1
    /\ ret = <<"", "<CommandException>", Elapsed>>

(* C9: copy and sync start the tool with exactly the argument vector
   [gsutil, -m, cp or rsync, -f1, ..., -fn, src_gs, dest_gs], for every src,
   dest and flag list. *)
C9_ArgumentVector ==
    (op \in {"cp_gcs", "sync_gcs"}
       /\ pc \notin {"idle", "cp_177", "cp_186", "sync_241", "sync_249"}) =>
        /\ err # "ValueError"
        /\ cmd = <<"gsutil", "-m", IF op = "cp_gcs" THEN "cp" ELSE "rsync">>
                    \o [n \in 1..Len(args.flags) |-> "-" \o args.flags[n]]
                    \o <<src_gs, dest_gs>>
        /\ Len(cmd) = Len(args.flags) + 5

====
